---- MODULE Spec2Model ----
(***************************************************************************)
(* Model of src/app.py: the Streamlit script that loads a raw-data CSV and *)
(* a shaping CSV, validates their labels, applies scale/offset/time shift, *)
(* and renders one chart per configured graph slot.                        *)
(*                                                                         *)
(* A table (pandas DataFrame) is a record                                  *)
(*     [columns |-> sequence of column names,                              *)
(*      data    |-> function from column name to the sequence of cells]    *)
(* Numeric cells are integers.  The cells of the first column of the       *)
(* shaping table are kept as the text found in the file, because main()    *)
(* converts one of them with float().                                      *)
(*                                                                         *)
(* Spec   : one run of main() on a pair of uploaded files.                 *)
(* SpecFn : direct calls of validate_data_labels and process_data on       *)
(*          tables drawn from a wider set of values.                       *)
(***************************************************************************)
EXTENDS Integers, Sequences, FiniteSets, TLC

VARIABLES
    raw_data_file,      \* content of the uploaded raw file (never written)
    shaping_data_file,  \* content of the uploaded shaping file (never written)
    pc,                 \* position of the run inside main()
    raw_data,           \* main's raw_data DataFrame
    shaping_data,       \* main's shaping_data DataFrame
    time_offset,        \* main's time_offset
    processed_data,     \* main's processed_data DataFrame
    num_graphs,         \* value of the 'Number of Graphs' slider
    x_slider,           \* <<min_value, max_value>> given to the x-range slider
    x_range,            \* <<x_min, x_max>> returned by the x-range slider
    i,                  \* loop variable of the per-graph loop
    widgets,            \* per-slot widget values read so far
    charts,             \* figures handed to st.plotly_chart, in order
    warnings,           \* slots for which st.sidebar.warning was called
    st_error,           \* messages handed to st.error
    exc                 \* the exception raised inside the try block, if any

vars == <<raw_data_file, shaping_data_file, pc, raw_data, shaping_data,
          time_offset, processed_data, num_graphs, x_slider, x_range, i,
          widgets, charts, warnings, st_error, exc>>

----------------------------------------------------------------------------
(* Bounds of the exploration *)

MaxRows == 2
MaxGraphs == 2

(* Program constants *)

MinNumGraphs == 1
MaxNumGraphs == 10

YAxisOptions ==
    <<"Voltage[V]", "Current[A]", "Speed[rpm]", "angle[rad]", "angle[deg]",
      "Speed[rad/s]", "Custom">>

----------------------------------------------------------------------------
(* Generic helpers *)

Range(s) == {s[k] : k \in DOMAIN s}

MinOf(S) == CHOOSE m \in S : \A n \in S : m <= n
MaxOf(S) == CHOOSE m \in S : \A n \in S : m >= n

SeqsOfLen(S, n) == [1..n -> S]

\* every duplicate-free sequence over S
Orderings(S) ==
    {s \in UNION {SeqsOfLen(S, n) : n \in 0..Cardinality(S)} :
        \A a, b \in DOMAIN s : a # b => s[a] # s[b]}

\* the members of seq at the positions in S, in seq's order
Pick(seq, S) ==
    LET F[k \in 0..Len(seq)] ==
            IF k = 0 THEN <<>>
            ELSE IF k \in S THEN Append(F[k - 1], seq[k]) ELSE F[k - 1]
    IN  F[Len(seq)]

----------------------------------------------------------------------------
(* Tables *)

NoTable == [columns |-> <<>>, data |-> [c \in {} |-> <<>>]]

NRows(df) == IF df.columns = <<>> THEN 0 ELSE Len(df.data[df.columns[1]])

\* df.columns[1:]
ColumnsTail(df) == IF df.columns = <<>> THEN <<>> ELSE Tail(df.columns)

\* df[df.columns[0]]
FirstColumn(df) == df.data[df.columns[1]]

Labels == {"V", "I"}

\* raw tables: a time column followed by any ordering of any subset of Labels
RawTables(timeVals, dataVals) ==
    UNION { UNION {
        { [columns |-> <<"time">> \o ls,
           data |-> [c \in {"time"} \cup Range(ls) |->
                        IF c = "time" THEN t ELSE d[c]]] :
            t \in SeqsOfLen(timeVals, n),
            d \in [Range(ls) -> SeqsOfLen(dataVals, n)] }
        : n \in 1..MaxRows } : ls \in Orderings(Labels) }

\* shaping tables: row 0 holds the scales, row 1 (when present) the offsets
\* and, in the first column, the text of the time offset
ShapingTables(firstNames, rowCounts, scaleVals, offsetVals, timeCells) ==
    UNION { UNION { UNION {
        { [columns |-> <<f>> \o ls,
           data |-> [c \in {f} \cup Range(ls) |->
                        IF c = f
                        THEN IF n = 1 THEN <<"_">> ELSE <<"_", tc>>
                        ELSE IF n = 1 THEN <<sc[c]>> ELSE <<sc[c], of[c]>>]] :
            sc \in [Range(ls) -> scaleVals],
            of \in [Range(ls) -> IF n = 1 THEN {0} ELSE offsetVals],
            tc \in IF n = 1 THEN {"_"} ELSE timeCells }
        : n \in rowCounts } : ls \in Orderings(Labels) } : f \in firstNames }

----------------------------------------------------------------------------
(* float(): the texts that parse, and their values *)

FloatValue == ("0" :> 0) @@ ("5" :> 5)

CanFloat(text) == text \in DOMAIN FloatValue

float(text) == FloatValue[text]

----------------------------------------------------------------------------
(* load_csv: the files are modelled by their parsed content *)

load_csv(file) == file

----------------------------------------------------------------------------
(* validate_data_labels *)

NoException == [type |-> "none", kind |-> "none", labels |-> {}]

raw_labels(raw) == Range(ColumnsTail(raw))

shaping_labels(shaping) == Range(ColumnsTail(shaping))

extra_raw_labels(raw, shaping) == raw_labels(raw) \ shaping_labels(shaping)

extra_shaping_labels(raw, shaping) == shaping_labels(shaping) \ raw_labels(raw)

\* variant: the shaping-extra check runs first
validate_shaping_first(raw, shaping) ==
    IF extra_shaping_labels(raw, shaping) # {}
    THEN [type |-> "ValueError", kind |-> "shaping_extra",
          labels |-> extra_shaping_labels(raw, shaping)]
    ELSE IF extra_raw_labels(raw, shaping) # {}
    THEN [type |-> "ValueError", kind |-> "raw_extra",
          labels |-> extra_raw_labels(raw, shaping)]
    ELSE NoException

\* variant: the shaping-extra check is missing
validate_raw_only(raw, shaping) ==
    IF extra_raw_labels(raw, shaping) # {}
    THEN [type |-> "ValueError", kind |-> "raw_extra",
          labels |-> extra_raw_labels(raw, shaping)]
    ELSE NoException

\* the exception validate_data_labels raises, or NoException
validate_data_labels(raw, shaping) ==
    IF extra_raw_labels(raw, shaping) # {}
    THEN [type |-> "ValueError", kind |-> "raw_extra",
          labels |-> extra_raw_labels(raw, shaping)]
    ELSE IF extra_shaping_labels(raw, shaping) # {}
    THEN [type |-> "ValueError", kind |-> "shaping_extra",
          labels |-> extra_shaping_labels(raw, shaping)]
    ELSE NoException

----------------------------------------------------------------------------
(* process_data *)

\* shaping_data.iloc[0, 1:].to_dict()
scaling(shaping) == [c \in Range(ColumnsTail(shaping)) |-> shaping.data[c][1]]

\* shaping_data.iloc[1, 1:].to_dict()
offset(shaping) == [c \in Range(ColumnsTail(shaping)) |-> shaping.data[c][2]]

\* the caller's raw table after line 34 has assigned its time column
shift_time(raw, t) ==
    [raw EXCEPT !.data[raw.columns[1]] = [k \in DOMAIN @ |-> @[k] + t]]

\* variant: scale and offset exchanged
scale_column_swapped(col, s, o) == [k \in DOMAIN col |-> col[k] * o + s]

\* one column of the returned table
scale_column(col, s, o) == [k \in DOMAIN col |-> col[k] * s + o]

\* variant: the result is assembled in the shaping table's column order
process_data_shaping_order(raw, shaping, t) ==
    LET shifted == shift_time(raw, t)
    IN  [columns |-> <<shifted.columns[1]>> \o ColumnsTail(shaping),
         data |-> [c \in {shifted.columns[1]} \cup Range(ColumnsTail(shaping)) |->
                     IF c = shifted.columns[1] THEN shifted.data[c]
                     ELSE IF c \in DOMAIN shifted.data
                     THEN scale_column(shifted.data[c], scaling(shaping)[c],
                                       offset(shaping)[c])
                     ELSE <<>>]]

\* the table process_data returns
process_data(raw, shaping, t) ==
    LET shifted == shift_time(raw, t)
        copy == shifted
    IN  [columns |-> copy.columns,
         data |-> [c \in DOMAIN copy.data |->
                     IF c \in Range(ColumnsTail(shifted)) /\ c \in DOMAIN scaling(shaping)
                     THEN scale_column(shifted.data[c], scaling(shaping)[c],
                                       offset(shaping)[c])
                     ELSE copy.data[c]]]

----------------------------------------------------------------------------
(* plot_data: the figure handed to st.plotly_chart *)

plot_data(processed, selected_columns, title, y_axis_label, xr) ==
    [traces |-> selected_columns,
     title |-> title,
     xaxis_title |-> "Time [s]",
     yaxis_title |-> y_axis_label,
     xaxis_range |-> xr]

----------------------------------------------------------------------------
(* main *)

\* variant: no fallback for an empty custom text
resolve_y_axis_label_no_fallback(y_axis_label, custom_label) ==
    IF y_axis_label = "Custom" THEN custom_label ELSE y_axis_label

\* lines 119-122
resolve_y_axis_label(y_axis_label, custom_label) ==
    IF y_axis_label = "Custom"
    THEN IF custom_label # "" THEN custom_label ELSE y_axis_label
    ELSE y_axis_label

\* variant: the emptiness test is missing
should_plot_always(selected_columns) == TRUE

\* line 126: 'if selected_columns:'
should_plot(selected_columns) == selected_columns # <<>>

\* min_value and max_value of the x-range slider
slider_min_value(processed) == MinOf(Range(FirstColumn(processed)))

\* variant: max_value computed with min()
slider_max_value_as_min(processed) == MinOf(Range(FirstColumn(processed)))

slider_max_value(processed) == MaxOf(Range(FirstColumn(processed)))

\* 'except ValueError as e: st.error(str(e))'
Caught(e) == e.type = "ValueError"

\* the values the exploration gives the widgets
NumGraphChoices ==
    {n \in MinNumGraphs..MaxNumGraphs : n <= MaxGraphs}

PresetChoices == {YAxisOptions[1], YAxisOptions[3], YAxisOptions[7]}

CustomTexts == {"", "Torque[Nm]"}

MainRawTables == RawTables({0, 1}, {2})

MainShapingTables == ShapingTables({"time"}, 1..2, {3}, {1}, {"5", "abc"})

Init ==
    /\ raw_data_file \in MainRawTables
    /\ shaping_data_file \in MainShapingTables
    /\ pc = "start"
    /\ raw_data = NoTable
    /\ shaping_data = NoTable
    /\ time_offset = 0
    /\ processed_data = NoTable
    /\ num_graphs = 0
    /\ x_slider = <<0, 0>>
    /\ x_range = <<0, 0>>
    /\ i = 0
    /\ widgets = <<>>
    /\ charts = <<>>
    /\ warnings = <<>>
    /\ st_error = <<>>
    /\ exc = NoException

\* an exception leaves the try block: caught and shown, or propagated
Raise(e) ==
    /\ exc' = e
    /\ IF Caught(e)
       THEN /\ st_error' = Append(st_error, e)
            /\ pc' = "error"
       ELSE /\ st_error' = st_error
            /\ pc' = "crashed"

\* lines 80-81
Load ==
    /\ pc = "start"
    /\ raw_data' = load_csv(raw_data_file)
    /\ shaping_data' = load_csv(shaping_data_file)
    /\ pc' = "loaded"
    /\ UNCHANGED <<raw_data_file, shaping_data_file, time_offset, processed_data,
                   num_graphs, x_slider, x_range, i, widgets, charts, warnings,
                   st_error, exc>>

\* lines 84-85
ExtractTimeOffset ==
    /\ pc = "loaded"
    /\ IF NRows(shaping_data) < 2
       THEN /\ Raise([type |-> "IndexError", kind |-> "iloc", labels |-> {}])
            /\ UNCHANGED time_offset
       ELSE IF ~CanFloat(FirstColumn(shaping_data)[2])
       THEN /\ Raise([type |-> "ValueError", kind |-> "float", labels |-> {}])
            /\ UNCHANGED time_offset
       ELSE /\ time_offset' = float(FirstColumn(shaping_data)[2])
            /\ pc' = "extracted"
            /\ UNCHANGED <<st_error, exc>>
    /\ UNCHANGED <<raw_data_file, shaping_data_file, raw_data, shaping_data,
                   processed_data, num_graphs, x_slider, x_range, i, widgets,
                   charts, warnings>>

\* line 88
Validate ==
    /\ pc = "extracted"
    /\ IF validate_data_labels(raw_data, shaping_data) # NoException
       THEN Raise(validate_data_labels(raw_data, shaping_data))
       ELSE /\ pc' = "validated"
            /\ UNCHANGED <<st_error, exc>>
    /\ UNCHANGED <<raw_data_file, shaping_data_file, raw_data, shaping_data,
                   time_offset, processed_data, num_graphs, x_slider, x_range, i,
                   widgets, charts, warnings>>

\* line 91
Process ==
    /\ pc = "validated"
    /\ processed_data' = process_data(raw_data, shaping_data, time_offset)
    /\ raw_data' = shift_time(raw_data, time_offset)
    /\ pc' = "processed"
    /\ UNCHANGED <<raw_data_file, shaping_data_file, shaping_data, time_offset,
                   num_graphs, x_slider, x_range, i, widgets, charts, warnings,
                   st_error, exc>>

\* lines 93-109
Configure ==
    /\ pc = "processed"
    /\ \E n \in NumGraphChoices : num_graphs' = n
    /\ x_slider' = <<slider_min_value(processed_data), slider_max_value(processed_data)>>
    /\ \E x_min, x_max \in x_slider'[1]..x_slider'[2] :
          /\ x_min <= x_max
          /\ x_range' = <<x_min, x_max>>
    /\ i' = 1
    /\ pc' = "graphs"
    /\ UNCHANGED <<raw_data_file, shaping_data_file, raw_data, shaping_data,
                   time_offset, processed_data, widgets, charts, warnings,
                   st_error, exc>>

\* lines 111-129: one iteration of the loop
GraphSlot ==
    /\ pc = "graphs"
    /\ i <= num_graphs
    /\ \E sel \in SUBSET (1..Len(ColumnsTail(processed_data))),
          y_axis_label \in PresetChoices,
          custom_text \in CustomTexts :
          LET available_columns == ColumnsTail(processed_data)
              selected_columns == Pick(available_columns, sel)
              custom_label == IF y_axis_label = "Custom" THEN custom_text ELSE ""
              custom_title == <<"Graph", i, "Selected Columns">>
          IN  /\ widgets' = Append(widgets,
                    [columns |-> selected_columns, y_label |-> y_axis_label,
                     custom_label |-> custom_label, title |-> custom_title])
              /\ IF should_plot(selected_columns)
                 THEN /\ charts' = Append(charts,
                            plot_data(processed_data, selected_columns, custom_title,
                                resolve_y_axis_label(y_axis_label, custom_label),
                                x_range))
                      /\ UNCHANGED warnings
                 ELSE /\ warnings' = Append(warnings, i)
                      /\ UNCHANGED charts
    /\ i' = i + 1
    /\ pc' = IF i = num_graphs THEN "done" ELSE "graphs"
    /\ UNCHANGED <<raw_data_file, shaping_data_file, raw_data, shaping_data,
                   time_offset, processed_data, num_graphs, x_slider, x_range,
                   st_error, exc>>

Next ==
    \/ Load
    \/ ExtractTimeOffset
    \/ Validate
    \/ Process
    \/ Configure
    \/ GraphSlot

Spec == Init /\ [][Next]_vars

----------------------------------------------------------------------------
(* Direct calls of the two functions *)

FnRawTables == RawTables({3}, {1, 2})

FnShapingTables == ShapingTables({"time", "t"}, 1..2, {2, 3}, {1}, {"5"})

FnTimeOffsets == {0, 5}

InitFn ==
    /\ raw_data_file \in FnRawTables
    /\ shaping_data_file \in FnShapingTables
    /\ pc = "call"
    /\ raw_data = raw_data_file
    /\ shaping_data = shaping_data_file
    /\ time_offset \in FnTimeOffsets
    /\ processed_data = NoTable
    /\ num_graphs = 0
    /\ x_slider = <<0, 0>>
    /\ x_range = <<0, 0>>
    /\ i = 0
    /\ widgets = <<>>
    /\ charts = <<>>
    /\ warnings = <<>>
    /\ st_error = <<>>
    /\ exc = NoException

\* validate_data_labels(raw_data, shaping_data)
CallValidate ==
    /\ pc = "call"
    /\ exc' = validate_data_labels(raw_data, shaping_data)
    /\ pc' = "validate_returned"
    /\ UNCHANGED <<raw_data_file, shaping_data_file, raw_data, shaping_data,
                   time_offset, processed_data, num_graphs, x_slider, x_range, i,
                   widgets, charts, warnings, st_error>>

\* process_data(raw_data, shaping_data, time_offset); iloc[1, 1:] raises
\* IndexError on a shaping table of fewer than two rows
CallProcess ==
    /\ pc = "call"
    /\ IF NRows(shaping_data) < 2
       THEN /\ exc' = [type |-> "IndexError", kind |-> "iloc", labels |-> {}]
            /\ pc' = "process_raised"
            /\ UNCHANGED <<raw_data, processed_data>>
       ELSE /\ processed_data' = process_data(raw_data, shaping_data, time_offset)
            /\ raw_data' = shift_time(raw_data, time_offset)
            /\ pc' = "process_returned"
            /\ UNCHANGED exc
    /\ UNCHANGED <<raw_data_file, shaping_data_file, shaping_data, time_offset,
                   num_graphs, x_slider, x_range, i, widgets, charts, warnings,
                   st_error>>

NextFn ==
    \/ CallValidate
    \/ CallProcess

SpecFn == InitFn /\ [][NextFn]_vars

----------------------------------------------------------------------------
(* Properties *)

\* the non-time labels of a table, read off its header
LabelSet(df) == {df.columns[k] : k \in 2..Len(df.columns)}

\* the text of shaping cell (row 1, column 0) does not exist or is no number
BadShaping(df) ==
    \/ NRows(df) < 2
    \/ df.data[df.columns[1]][2] \notin {"0", "5"}

\* C1: for raw and shaping tables with the same non-time labels, process_data
\* returns raw[c][k] * (shaping row 0 of c) + (shaping row 1 of c) in every
\* non-time column c and row k, the shaping cells being found by label, and
\* raw[time][k] + time_offset, added once, in the time column.
C1_Linear ==
    (pc = "process_returned" /\ LabelSet(raw_data_file) = LabelSet(shaping_data))
    => /\ \A c \in LabelSet(raw_data_file) : \A k \in 1..NRows(raw_data_file) :
            processed_data.data[c][k] =
                raw_data_file.data[c][k] * shaping_data.data[c][1]
                    + shaping_data.data[c][2]
       /\ \A k \in 1..NRows(raw_data_file) :
            processed_data.data[raw_data_file.columns[1]][k] =
                raw_data_file.data[raw_data_file.columns[1]][k] + time_offset

C1_Witness ==
    /\ pc = "process_returned"
    /\ LabelSet(raw_data_file) = LabelSet(shaping_data)
    /\ Len(raw_data_file.columns) = 3
    /\ Tail(raw_data_file.columns) # Tail(shaping_data.columns)
    /\ shaping_data.data["V"][1] # shaping_data.data["I"][1]
    /\ raw_data_file.data["V"] # raw_data_file.data["I"]
    /\ NRows(raw_data_file) = 2
    /\ time_offset = 5

\* C2: validate_data_labels reports the first failing check only: the
\* raw-extra error with exactly (raw labels \ shaping labels) whenever that set
\* is non-empty, and the shaping-extra error with exactly (shaping labels \
\* raw labels) only when the raw-extra set is empty and that set is not.
C2_FirstFailingCheckOnly ==
    pc = "validate_returned"
    => LET R == LabelSet(raw_data)
           S == LabelSet(shaping_data)
       IN  /\ R \ S # {} =>
                exc = [type |-> "ValueError", kind |-> "raw_extra", labels |-> R \ S]
           /\ exc.kind = "shaping_extra" <=> (R \ S = {} /\ S \ R # {})
           /\ exc.kind = "shaping_extra" =>
                exc = [type |-> "ValueError", kind |-> "shaping_extra",
                       labels |-> S \ R]

C2_Witness ==
    /\ pc = "validate_returned"
    /\ LabelSet(raw_data) \ LabelSet(shaping_data) # {}
    /\ LabelSet(shaping_data) \ LabelSet(raw_data) # {}
    /\ exc.kind = "raw_extra"

\* C3: after process_data returns, the caller's raw table holds the values it
\* held before the call, in every column including the time column.
C3_RawUnchanged ==
    pc = "process_returned" => raw_data = raw_data_file

\* C4: when the shaping table has fewer than two rows or its cell (row 1,
\* column 0) is no number, the run ends with exactly one message given to
\* st.error and with no processed table and no chart.
C4_ShapingErrorSurfaced ==
    (pc \notin {"start", "loaded"} /\ BadShaping(shaping_data_file))
    => /\ pc = "error"
       /\ Len(st_error) = 1
       /\ processed_data = NoTable
       /\ charts = <<>>

\* C5: the charts rendered are exactly the slots read so far whose selection
\* is non-empty; a slot with an empty selection gives a warning and no chart,
\* and the loop still visits every slot up to num_graphs.
C5_ChartPerNonEmptySlot ==
    pc \in {"graphs", "done"}
    => LET NonEmpty == {k \in 1..Len(widgets) : widgets[k].columns # <<>>}
           Empty == {k \in 1..Len(widgets) : widgets[k].columns = <<>>}
       IN  /\ Len(widgets) = i - 1
           /\ Len(charts) = Cardinality(NonEmpty)
           /\ {charts[k].title[2] : k \in DOMAIN charts} = NonEmpty
           /\ Len(warnings) = Cardinality(Empty)
           /\ Range(warnings) = Empty
           /\ pc = "done" => Len(widgets) = num_graphs

C5_Witness ==
    /\ pc = "done"
    /\ num_graphs >= 2
    /\ warnings = <<1>>
    /\ Len(charts) = num_graphs - 1

\* C6: validate_data_labels raises nothing exactly when the set of raw column
\* names without the first equals the set of shaping column names without the
\* first, whatever the order of the columns.
C6_SucceedsIffSetsEqual ==
    pc = "validate_returned"
    => (exc = NoException <=> LabelSet(raw_data) = LabelSet(shaping_data))

C6_Witness ==
    /\ pc = "validate_returned"
    /\ exc = NoException
    /\ Len(raw_data.columns) = 3
    /\ Tail(raw_data.columns) # Tail(shaping_data.columns)
    /\ raw_data.columns[1] # shaping_data.columns[1]

\* C7: for a shaping table that passes validation, the table process_data
\* returns has the raw table's column names in the raw table's order and the
\* raw table's number of rows in every column.
C7_ShapePreserved ==
    (pc = "process_returned" /\ LabelSet(raw_data_file) = LabelSet(shaping_data))
    => /\ processed_data.columns = raw_data_file.columns
       /\ DOMAIN processed_data.data = DOMAIN raw_data_file.data
       /\ \A c \in DOMAIN raw_data_file.data :
            Len(processed_data.data[c]) = Len(raw_data_file.data[c])

C7_Witness ==
    /\ pc = "process_returned"
    /\ LabelSet(raw_data_file) = LabelSet(shaping_data)
    /\ raw_data_file.columns = <<"time", "I", "V">>
    /\ shaping_data.columns = <<"t", "V", "I">>
    /\ NRows(processed_data) = 2

\* C8: the slider bounds are the least and greatest value of the time column
\* after the time offset was added, the selected range lies within them, and
\* every chart is given that one selected range.
C8_SharedXRange ==
    pc \in {"graphs", "done"}
    => LET T == {raw_data_file.data[raw_data_file.columns[1]][k] + time_offset :
                    k \in 1..NRows(raw_data_file)}
       IN  /\ x_slider[1] \in T /\ \A t \in T : x_slider[1] <= t
           /\ x_slider[2] \in T /\ \A t \in T : t <= x_slider[2]
           /\ x_slider[1] <= x_range[1]
           /\ x_range[1] <= x_range[2]
           /\ x_range[2] <= x_slider[2]
           /\ \A k \in DOMAIN charts : charts[k].xaxis_range = x_range

C8_Witness ==
    /\ pc = "done"
    /\ Len(charts) >= 2
    /\ time_offset = 5
    /\ x_slider = <<5, 6>>
    /\ x_range = <<6, 6>>

\* C9: the y-axis title of a slot's chart is the preset when the preset is
\* not "Custom", the custom text when the preset is "Custom" and the text is
\* not empty, and "Custom" when the preset is "Custom" and the text is empty.
C9_YAxisLabel ==
    \A k \in DOMAIN charts :
        LET w == widgets[charts[k].title[2]]
        IN  /\ w.y_label # "Custom" => charts[k].yaxis_title = w.y_label
            /\ (w.y_label = "Custom" /\ w.custom_label # "")
                    => charts[k].yaxis_title = w.custom_label
            /\ (w.y_label = "Custom" /\ w.custom_label = "")
                    => charts[k].yaxis_title = "Custom"

C9_Witness ==
    /\ pc = "done"
    /\ Len(charts) = 2
    /\ widgets[1].y_label = "Custom" /\ widgets[1].custom_label = ""
    /\ charts[1].yaxis_title = "Custom"
    /\ widgets[2].y_label = "Custom"
    /\ charts[2].yaxis_title = "Torque[Nm]"

\* C10: for files with both a label mismatch and an unusable time-offset cell
\* (or too few shaping rows), the error the run reports is the label mismatch.
C10_LabelErrorFirst ==
    (/\ pc \in {"error", "crashed"}
     /\ LabelSet(raw_data_file) # LabelSet(shaping_data_file)
     /\ BadShaping(shaping_data_file))
    => /\ st_error = <<exc>>
       /\ exc.kind \in {"raw_extra", "shaping_extra"}

====
